---- MODULE Spec2Model ----
(***************************************************************************)
(* Model of plotting.py: the grid normalizer _validate_infer_indexes, the  *)
(* bar comparison plot_contour_levels_stat, the contour comparison         *)
(* contour_comparision_plot_2d and the combined driver plot_combined.      *)
(*                                                                         *)
(* An array is modelled by its shape (a sequence of dimension lengths) and *)
(* its memory order: "C" for a row-major array, as np.asarray builds from  *)
(* a list, and "F" for a transposed two-dimensional array.  Its element    *)
(* count is the product of the shape.  A pdf argument also has a kind:     *)
(* "ndarray", which np.asarray hands on as the same object, or "list",     *)
(* from which np.asarray builds a new array.  An optional value is a       *)
(* record [isNone, v].  A coordinate is a fraction <<num, den>>.           *)
(***************************************************************************)
EXTENDS Integers, Sequences, FiniteSets, TLC

\* ---------------------------------------------------------------- bounds
MaxAxisLen == 3
MaxFlat == 9
MaxDim == 3
MaxSchemes == 3
MaxK == 2
MaxRes == 2

\* ------------------------------------------------------- optional values
None == [isNone |-> TRUE, v |-> <<>>]
Some(s) == [isNone |-> FALSE, v |-> s]

\* ------------------------------------------------------------ numpy bits
\* pdf.size: the product of the dimension lengths (1 for a 0-d array).
RECURSIVE Prod(_)
Prod(shape) == IF shape = <<>> THEN 1 ELSE Head(shape) * Prod(Tail(shape))

size(pdf) == Prod(pdf.shape)

\* np.linspace(0, 1, s): s evenly spaced points; the single point 0 when
\* s = 1 and the empty array when s = 0.
linspace(s) == [j \in 1..s |-> IF s = 1 THEN <<0, 1>> ELSE <<j - 1, s - 1>>]

\* int(n ** 0.5): the integer part of the square root.
IntSqrtOff(n) == CHOOSE s \in 0..(n + 1) : (s - 1) * (s - 1) <= n /\ n < s * s
IntSqrt(n) == CHOOSE s \in 0..n : s * s <= n /\ n < (s + 1) * (s + 1)

\* ---------------------------------------------- _validate_infer_indexes
NoGrid == [shape |-> <<>>, order |-> "C"]

Raise(err) == [status |-> err, grid |-> NoGrid, x |-> None, y |-> None]
Return(grid, x, y) == [status |-> "ok", grid |-> grid, x |-> x, y |-> y]

\* pdf.shape = shape (lines 50 and 65), the element counts being equal: numpy
\* changes the shape in place when no copy is needed, which for a transposed
\* array is only when the shape stays what it is, and raises AttributeError
\* otherwise.
CanSetShape(pdf, shape) == pdf.order = "C" \/ shape = pdf.shape

\* lines 36-38: indexes[0] replaces x.
OverrideXKeep(x, indexes) == IF x.isNone /\ ~indexes.isNone /\ Len(indexes.v) > 0 THEN indexes.v[1] ELSE x
OverrideX(x, indexes) == IF ~indexes.isNone /\ Len(indexes.v) > 0 THEN indexes.v[1] ELSE x

\* lines 36, 39-40: indexes[1] replaces y.
OverrideY(y, indexes) == IF ~indexes.isNone /\ Len(indexes.v) > 1 THEN indexes.v[2] ELSE y

\* line 67: the assertion before the return.
PostCondition(shape, x, y) == Len(shape) >= 2 /\ shape[1] = Len(x.v) /\ shape[2] = Len(y.v)

\* lines 50/65 and 67-68: reshape in place, assert, return.
Reshaped(pdf, shape, x, y) ==
    IF ~CanSetShape(pdf, shape) THEN Raise("AttributeError")
    ELSE IF ~PostCondition(shape, x, y) THEN Raise("AssertionError")
    ELSE Return([shape |-> shape, order |-> pdf.order], x, y)

\* lines 42-57: no axes given.  Only the one-dimensional branch binds s; the
\* two-dimensional branch passes, and an array of any other dimensionality
\* takes neither branch, so line 56 reads the unbound local s.
InferNoAxes(pdf) ==
    IF Len(pdf.shape) = 2 THEN Raise("UnboundLocalError")
    ELSE IF Len(pdf.shape) = 1
         THEN LET s == IntSqrt(pdf.shape[1])
              IN  IF s * s = pdf.shape[1]
                  THEN Reshaped(pdf, <<s, s>>, Some(linspace(s)), Some(linspace(s)))
                  ELSE Raise("ValueError: cannot infer shape")
         ELSE Raise("UnboundLocalError")

\* line 59: exactly one of x and y is set.
OnlyOneSetLeft(x, y) == x.isNone /\ ~y.isNone
OnlyOneSet(x, y) == (x.isNone /\ ~y.isNone) \/ (~x.isNone /\ y.isNone)

\* line 63: the element count differs from len(x) * len(y).
ShapeMismatchSum(pdf, x, y) == size(pdf) # Len(x.v) + Len(y.v)
ShapeMismatch(pdf, x, y) == size(pdf) # Len(x.v) * Len(y.v)

\* lines 62-65: both axes given.
BothSet(pdf, x, y) ==
    IF ShapeMismatch(pdf, x, y)
    THEN Raise("ValueError: shapes do not match")
    ELSE Reshaped(pdf, <<Len(x.v), Len(y.v)>>, x, y)

\* lines 42-68 after the override.
Dispatch(pdf, x, y) ==
    IF x.isNone /\ y.isNone THEN InferNoAxes(pdf)
    ELSE IF OnlyOneSet(x, y) THEN Raise("TypeError: x and y must be both set or both unset")
    ELSE BothSet(pdf, x, y)

_validate_infer_indexes(pdf, x, y, indexes) == Dispatch(pdf, OverrideX(x, indexes), OverrideY(y, indexes))

\* lines 34, 50 and 65: np.asarray does not copy an ndarray, so the shape
\* assignment of a call that returns r reshapes the caller's own array; a
\* list is left as it is.
Mutated(a, r) == IF a.kind = "ndarray" /\ r.status = "ok" THEN [a EXCEPT !.shape = r.grid.shape] ELSE a

\* ------------------------------------------------------------ the inputs
\* A supplied axis: n consecutive integer coordinates starting at o.
arange(n, o) == [j \in 1..n |-> <<o + j - 1, 1>>]

\* x and y: unset, or an axis starting at 0.
AxisArgs == {None} \cup {Some(arange(n, 0)) : n \in 0..MaxAxisLen}

\* indexes: unset, or a sequence of up to two optional axes starting at 1.
IndexAxes == {None} \cup {Some(arange(n, 1)) : n \in 0..MaxAxisLen}
IndexesArgs == {None} \cup {Some(<<>>)} \cup {Some(<<a>>) : a \in IndexAxes} \cup {Some(<<a, b>>) : a, b \in IndexAxes}

\* pdf: nested lists (a number for the 0-d case) and ndarrays that are 0-d,
\* flat, two- or three-dimensional with every dimension of length 1 or
\* more, and transposed two-dimensional ndarrays (a transposed array with a
\* dimension of length 1 is row-major as well).
Shapes ==
    {<<>>} \cup {<<n>> : n \in 1..MaxFlat}
    \cup {<<m, n>> : m, n \in 1..MaxDim}
    \cup {<<m, n, 1>> : m, n \in 1..MaxDim}
Pdfs ==
    {[kind |-> kd, shape |-> sh, order |-> "C"] : kd \in {"list", "ndarray"}, sh \in Shapes}
    \cup {[kind |-> "ndarray", shape |-> <<m, n>>, order |-> "F"] : m, n \in 2..MaxDim}

\* ---------------------------------------------------------- the plotting
\* A resolution value: an integer, None, or a list of such scalars.  NoK
\* stands in a title that has no resolution formatted into it.
IntK(n) == [type |-> "int", v |-> n, items |-> <<>>]
NoneK == [type |-> "NoneType", v |-> 0, items |-> <<>>]
ListK(items) == [type |-> "list", v |-> 0, items |-> items]
NoK == [type |-> "unformatted", v |-> 0, items |-> <<>>]

\* A subplot title: a text and the value formatted into it.
Label(text, ki) == [text |-> text, k |-> ki]
NoLabel == Label("", NoK)

\* line 13
DEFAULT_LABELS == <<Label("old", NoK), Label("vertical", NoK), Label("horizontal", NoK)>>

\* One call on the plotting surface or on the weight routine.
Event(op, n, levels, title) == [op |-> op, n |-> n, levels |-> levels, title |-> title]

Failed(err) == [status |-> err, events |-> <<>>]
NotRun == Failed("not called")

\* np.unique(levels): the distinct values in ascending order.
RECURSIVE SortedSeq(_)
SortedSeq(S) ==
    IF S = {} THEN <<>>
    ELSE LET m == CHOOSE a \in S : \A b \in S : a <= b
         IN  <<m>> \o SortedSeq(S \ {m})

unique(levels) == SortedSeq({levels[t] : t \in DOMAIN levels})

\* line 155: the three sequences are not all of one length.
LengthsDifferLabels(levels_lst, pdf_lst, labels) == Len(levels_lst) # Len(labels)
LengthsDiffer(levels_lst, pdf_lst, labels) == Len(levels_lst) # Len(pdf_lst) \/ Len(levels_lst) # Len(labels)

\* lines 162-168, iterations t..n: the weight routine, then the bars
\* L1..L(len(levels)+1) on subplot t under its title.
RECURSIVE BarEvents(_, _, _)
BarEvents(levels_lst, labels, t) ==
    IF t > Len(levels_lst) THEN <<>>
    ELSE <<Event("contour_level_weight", t, levels_lst[t], NoLabel),
           Event("bar", Len(levels_lst[t]) + 1, levels_lst[t], labels[t])>>
         \o BarEvents(levels_lst, labels, t + 1)

\* lines 139-168.  plt.subplots(nrows=1, ncols=n) raises ValueError for
\* n = 0, returns one Axes object, which can be neither indexed nor
\* iterated, for n = 1, and an array of n Axes otherwise.
plot_contour_levels_stat(levels_lst, pdf_lst, labels) ==
    IF LengthsDiffer(levels_lst, pdf_lst, labels)
    THEN Failed("ValueError: All arguments must be sequences of equal length.")
    ELSE LET n == Len(levels_lst)
         IN  IF n = 0 THEN Failed("ValueError: subplots")
             ELSE IF n = 1
                  THEN [status |-> "TypeError: Axes is not subscriptable",
                        events |-> <<Event("subplots", n, <<>>, NoLabel),
                                     Event("contour_level_weight", 1, levels_lst[1], NoLabel)>>]
                  ELSE [status |-> "ok",
                        events |-> <<Event("subplots", n, <<>>, NoLabel)>> \o BarEvents(levels_lst, labels, 1)]

\* line 192: zip(ax, labels, levels_lst) stops at the shortest of the three.
ZipLen(n, labels, levels_lst) ==
    LET m == IF n <= Len(labels) THEN n ELSE Len(labels)
    IN  IF m <= Len(levels_lst) THEN m ELSE Len(levels_lst)

\* lines 192-195, iterations t..last: a contour draw at the distinct sorted
\* levels, under its title.
RECURSIVE ContourEvents(_, _, _, _)
ContourEvents(levels_lst, labels, t, last) ==
    IF t > last THEN <<>>
    ELSE <<Event("contour", t, unique(levels_lst[t]), labels[t])>>
         \o ContourEvents(levels_lst, labels, t + 1, last)

\* line 194: axis.contour(x, y, pdf) takes pdf as rows by columns, at least
\* 2 by 2, with len(x) the number of columns and len(y) the number of rows,
\* and raises TypeError otherwise.
ContourAccepts(grid, xs, ys) ==
    /\ Len(grid.shape) = 2
    /\ grid.shape[1] >= 2 /\ grid.shape[2] >= 2
    /\ Len(xs.v) = grid.shape[2]
    /\ Len(ys.v) = grid.shape[1]

\* lines 171-197.  The first draw that axis.contour refuses ends the call,
\* before plt.show.
contour_comparision_plot_2d(levels_lst, p, xs, ys, idx, labels) ==
    LET norm == _validate_infer_indexes(p, xs, ys, idx)
        n == Len(levels_lst)
    IN  IF norm.status # "ok" THEN Failed(norm.status)
        ELSE IF n = 0 THEN Failed("ValueError: subplots")
        ELSE IF n = 1
             THEN [status |-> "TypeError: Axes is not iterable",
                   events |-> <<Event("subplots", n, <<>>, NoLabel)>>]
        ELSE IF ZipLen(n, labels, levels_lst) >= 1 /\ ~ContourAccepts(norm.grid, norm.x, norm.y)
             THEN [status |-> "TypeError: contour",
                   events |-> <<Event("subplots", n, <<>>, NoLabel)>>]
             ELSE [status |-> "ok",
                   events |-> <<Event("subplots", n, <<>>, NoLabel)>>
                              \o ContourEvents(levels_lst, labels, 1, ZipLen(n, labels, levels_lst))
                              \o <<Event("show", 0, <<>>, NoLabel)>>]

\* ----------------------------------------------- the level-scheme routines
SchemeNames == <<"equi_value", "equi_prob_per_level", "equi_horizontal_prob_per_level">>

\* What a level scheme does with k: thresholds for an integer, TypeError for
\* None; what it does with a list passed as k is left open.
SchemeOutcomes(ki) ==
    IF ki.type = "int" THEN {"ok"}
    ELSE IF ki.type = "NoneType" THEN {"TypeError"}
    ELSE {"ok", "TypeError", "ValueError"}

\* The thresholds scheme t returns for k: k - 1 of them for an integer k.
SchemeLevels(t, ki) == [u \in 1..(ki.v - 1) |-> 10 * t + u]

SchemeCall(name, ki, phase, outcome) == [scheme |-> name, k |-> ki, phase |-> phase, outcome |-> outcome]

\* ------------------------------------------------------------ the inputs
\* The level sets of one scheme.
LevelSets == {<<>>, <<2, 1>>, <<1, 2, 1>>}

RECURSIVE SeqsUpTo(_, _)
SeqsUpTo(S, n) ==
    IF n = 0 THEN {<<>>}
    ELSE LET shorter == SeqsUpTo(S, n - 1)
         IN  shorter \cup {Append(q, e) : q \in {r \in shorter : Len(r) = n - 1}, e \in S}

\* labels: the default, or n titles of its own.
CustomLabels(n) == [t \in 1..n |-> Label("scheme", IntK(t))]
LabelArgs == {DEFAULT_LABELS} \cup {CustomLabels(n) : n \in 1..MaxSchemes}

\* The grids the plotting functions are called with.
PlotPdfs ==
    {[kind |-> "list", shape |-> <<4>>, order |-> "C"], [kind |-> "ndarray", shape |-> <<4>>, order |-> "C"],
     [kind |-> "list", shape |-> <<6>>, order |-> "C"],
     [kind |-> "ndarray", shape |-> <<2, 3>>, order |-> "C"], [kind |-> "ndarray", shape |-> <<3, 2>>, order |-> "F"]}
PlotAxes ==
    {<<None, None, None>>,
     <<Some(arange(2, 0)), Some(arange(2, 0)), None>>,
     <<Some(arange(2, 0)), Some(arange(3, 0)), None>>,
     <<None, None, Some(<<Some(arange(2, 1)), Some(arange(3, 1))>>)>>}

\* k: an integer, None, or a list of integers and Nones.
ScalarKs == {IntK(n) : n \in 1..MaxK} \cup {NoneK}
Resolutions == ScalarKs \cup {ListK(q) : q \in SeqsUpTo(ScalarKs, MaxRes)}

VARIABLES pdf, arr, x, y, indexes, res, res_direct, res_same, res_again, pc, levels_lst, pdf_lst, labels, out, k, ks, pdf_lvls, prob_lvls, prob_hori_lvls, scheme_calls, calls, status, i, scheme, fallbacks

normVars == <<pdf, arr, x, y, indexes, res, res_direct, res_same, res_again>>
plotVars == <<levels_lst, pdf_lst, labels, out>>
combVars == <<k, ks, pdf_lvls, prob_lvls, prob_hori_lvls, scheme_calls, calls, status, i, scheme, fallbacks>>
vars == <<normVars, plotVars, combVars, pc>>

NotCalled == Raise("not called")

\* No plotting function has been called.
PlotIdle ==
    /\ levels_lst = <<>>
    /\ pdf_lst = <<>>
    /\ labels = DEFAULT_LABELS
    /\ out = NotRun

\* The combined driver has not been called.
CombinedIdle ==
    /\ k = NoK
    /\ ks = <<>>
    /\ pdf_lvls = <<>>
    /\ prob_lvls = <<>>
    /\ prob_hori_lvls = <<>>
    /\ scheme_calls = <<>>
    /\ calls = <<>>
    /\ status = "running"
    /\ i = 1
    /\ scheme = 1
    /\ fallbacks = 0

\* The normalizer has not been called: the caller's array arr is the pdf
\* as it is passed.
NormIdle ==
    /\ arr = pdf
    /\ res = NotCalled
    /\ res_direct = NotCalled
    /\ res_same = NotCalled
    /\ res_again = NotCalled

Init ==
    /\ pdf \in Pdfs
    /\ x \in AxisArgs
    /\ y \in AxisArgs
    /\ indexes \in IndexesArgs
    /\ NormIdle
    /\ PlotIdle
    /\ CombinedIdle
    /\ pc = "start"

\* normalize(pdf, x, y, indexes).  pdf stays the argument as it was passed;
\* arr is the caller's object after the call, and res.grid is that same
\* object when pdf is an ndarray.
Normalize ==
    /\ pc = "start"
    /\ res' = _validate_infer_indexes(pdf, x, y, indexes)
    /\ arr' = Mutated(pdf, res')
    /\ pc' = "normalized"
    /\ UNCHANGED <<pdf, x, y, indexes, res_direct, res_same, res_again, plotVars, combVars>>

\* A separately built array equal to pdf as it was passed, with the two
\* entries of indexes passed as x and y, and no indexes.
NormalizeDirect ==
    /\ pc = "normalized"
    /\ ~indexes.isNone /\ Len(indexes.v) = 2
    /\ res_direct' = _validate_infer_indexes(pdf, indexes.v[1], indexes.v[2], None)
    /\ pc' = "done"
    /\ UNCHANGED <<pdf, arr, x, y, indexes, res, res_same, res_again, plotVars, combVars>>

\* The caller's own object, as the first call left it, passed again with the
\* two entries of indexes as x and y, and no indexes.
NormalizeSameObject ==
    /\ pc = "normalized"
    /\ ~indexes.isNone /\ Len(indexes.v) = 2
    /\ res_same' = _validate_infer_indexes(arr, indexes.v[1], indexes.v[2], None)
    /\ arr' = Mutated(arr, res_same')
    /\ pc' = "done"
    /\ UNCHANGED <<pdf, x, y, indexes, res, res_direct, res_again, plotVars, combVars>>

\* line 187 reached from line 227: the normalizer's own output normalized
\* again, with no indexes.  The grid is the caller's object when pdf is an
\* ndarray.
Renormalize ==
    /\ pc = "normalized"
    /\ res.status = "ok"
    /\ res_again' = _validate_infer_indexes(res.grid, res.x, res.y, None)
    /\ arr' = IF res_again'.status = "ok" THEN Mutated(arr, res_again') ELSE arr
    /\ pc' = "done"
    /\ UNCHANGED <<pdf, x, y, indexes, res, res_direct, res_same, plotVars, combVars>>

Next == Normalize \/ NormalizeDirect \/ NormalizeSameObject \/ Renormalize

Spec == Init /\ [][Next]_vars

\* --------------------------------------- the plotting functions, called
InitPlot ==
    /\ pdf \in PlotPdfs
    /\ \E a \in PlotAxes : x = a[1] /\ y = a[2] /\ indexes = a[3]
    /\ levels_lst \in SeqsUpTo(LevelSets, MaxSchemes)
    /\ pdf_lst \in {[t \in 1..n |-> pdf] : n \in 0..MaxSchemes}
    /\ labels \in LabelArgs
    /\ out = NotRun
    /\ NormIdle
    /\ CombinedIdle
    /\ pc = "start"

\* plot_contour_levels_stat(levels_lst, pdf_lst, labels)
BarComparison ==
    /\ pc = "start"
    /\ out' = plot_contour_levels_stat(levels_lst, pdf_lst, labels)
    /\ pc' = "bar comparison"
    /\ UNCHANGED <<normVars, levels_lst, pdf_lst, labels, combVars>>

\* contour_comparision_plot_2d(levels_lst, pdf, x, y, indexes, labels)
ContourComparison ==
    /\ pc = "start"
    /\ out' = contour_comparision_plot_2d(levels_lst, pdf, x, y, indexes, labels)
    /\ arr' = Mutated(pdf, _validate_infer_indexes(pdf, x, y, indexes))
    /\ pc' = "contour comparison"
    /\ UNCHANGED <<pdf, x, y, indexes, res, res_direct, res_same, res_again, levels_lst, pdf_lst, labels, combVars>>

NextPlot == BarComparison \/ ContourComparison

SpecPlot == InitPlot /\ [][NextPlot]_vars

\* ---------------------------------------------------------- plot_combined
InitCombined ==
    /\ pdf \in PlotPdfs
    /\ \E a \in PlotAxes : x = a[1] /\ y = a[2] /\ indexes = a[3]
    /\ k \in Resolutions
    /\ ks = <<>>
    /\ pdf_lvls = <<>>
    /\ prob_lvls = <<>>
    /\ prob_hori_lvls = <<>>
    /\ scheme_calls = <<>>
    /\ calls = <<>>
    /\ status = "running"
    /\ i = 1
    /\ scheme = 1
    /\ fallbacks = 0
    /\ NormIdle
    /\ PlotIdle
    /\ pc = "start"

\* lines 225 and 230: the three titles for resolution ki.
LabelsFor(ki) == <<Label("old (k={})", ki), Label("vertical (k={})", ki), Label("horizonal (k={})", ki)>>

\* lines 221-222 and 226-227: enumerate(k) pairs entry i of k with entry i
\* of each list of level sets.
Item(q, n) == q[n]

\* lines 215-217: each list is rebound to a new one-element list.
FallbackKeep(lvls, levels) == Append(lvls, levels)
FallbackAssign(lvls, levels) == <<levels>>

\* One rendering call of the driver and what it did.
Comparison(fn, ki, r) == [fn |-> fn, k |-> ki, status |-> r.status, events |-> r.events]

\* line 203; an error of the normalizer leaves plot_combined.
CombinedNormalize ==
    /\ pc = "start"
    /\ res' = _validate_infer_indexes(pdf, x, y, indexes)
    /\ arr' = Mutated(pdf, res')
    /\ IF res'.status = "ok"
       THEN pc' = "iterate" /\ status' = status
       ELSE pc' = "raised" /\ status' = res'.status
    /\ UNCHANGED <<pdf, x, y, indexes, res_direct, res_same, res_again, plotVars>>
    /\ UNCHANGED <<k, ks, pdf_lvls, prob_lvls, prob_hori_lvls, scheme_calls, calls, i, scheme, fallbacks>>

\* line 210 on a k that cannot be iterated: TypeError, caught at line 214.
IterNotIterable ==
    /\ pc = "iterate"
    /\ k.type # "list"
    /\ pc' = "fallback"
    /\ fallbacks' = fallbacks + 1
    /\ scheme' = 1
    /\ UNCHANGED <<normVars, plotVars, k, ks, pdf_lvls, prob_lvls, prob_hori_lvls, scheme_calls, calls, status, i>>

\* lines 210-213: one level-scheme call of the loop.  Its result is appended
\* to the scheme's list; its TypeError is caught at line 214; any other
\* error leaves plot_combined.
LoopSchemeCall ==
    /\ pc = "iterate"
    /\ k.type = "list"
    /\ i <= Len(k.items)
    /\ \E o \in SchemeOutcomes(k.items[i]) :
        /\ scheme_calls' = Append(scheme_calls, SchemeCall(SchemeNames[scheme], k.items[i], "loop", o))
        /\ IF o = "ok"
           THEN /\ pdf_lvls' = IF scheme = 1 THEN Append(pdf_lvls, SchemeLevels(1, k.items[i])) ELSE pdf_lvls
                /\ prob_lvls' = IF scheme = 2 THEN Append(prob_lvls, SchemeLevels(2, k.items[i])) ELSE prob_lvls
                /\ prob_hori_lvls' = IF scheme = 3 THEN Append(prob_hori_lvls, SchemeLevels(3, k.items[i])) ELSE prob_hori_lvls
                /\ scheme' = IF scheme = 3 THEN 1 ELSE scheme + 1
                /\ i' = IF scheme = 3 THEN i + 1 ELSE i
                /\ UNCHANGED <<pc, status, fallbacks>>
           ELSE IF o = "TypeError"
           THEN /\ pc' = "fallback"
                /\ fallbacks' = fallbacks + 1
                /\ scheme' = 1
                /\ UNCHANGED <<pdf_lvls, prob_lvls, prob_hori_lvls, status, i>>
           ELSE /\ pc' = "raised"
                /\ status' = o
                /\ UNCHANGED <<pdf_lvls, prob_lvls, prob_hori_lvls, scheme, i, fallbacks>>
    /\ UNCHANGED <<normVars, plotVars, k, ks, calls>>

\* line 210 exhausted: the loop ends and k is rendered entry by entry.
LoopDone ==
    /\ pc = "iterate"
    /\ k.type = "list"
    /\ i > Len(k.items)
    /\ ks' = k.items
    /\ pc' = "bars"
    /\ i' = 1
    /\ UNCHANGED <<normVars, plotVars, k, pdf_lvls, prob_lvls, prob_hori_lvls, scheme_calls, calls, status, scheme, fallbacks>>

\* lines 215-218: one level-scheme call of the handler, with k itself.  An
\* error of the call leaves plot_combined; after the third call k = [k].
FallbackSchemeCall ==
    /\ pc = "fallback"
    /\ \E o \in SchemeOutcomes(k) :
        /\ scheme_calls' = Append(scheme_calls, SchemeCall(SchemeNames[scheme], k, "fallback", o))
        /\ IF o = "ok"
           THEN /\ pdf_lvls' = IF scheme = 1 THEN FallbackAssign(pdf_lvls, SchemeLevels(1, k)) ELSE pdf_lvls
                /\ prob_lvls' = IF scheme = 2 THEN FallbackAssign(prob_lvls, SchemeLevels(2, k)) ELSE prob_lvls
                /\ prob_hori_lvls' = IF scheme = 3 THEN FallbackAssign(prob_hori_lvls, SchemeLevels(3, k)) ELSE prob_hori_lvls
                /\ scheme' = IF scheme = 3 THEN 1 ELSE scheme + 1
                /\ ks' = IF scheme = 3 THEN <<k>> ELSE ks
                /\ pc' = IF scheme = 3 THEN "bars" ELSE pc
                /\ i' = IF scheme = 3 THEN 1 ELSE i
                /\ UNCHANGED status
           ELSE /\ pc' = "raised"
                /\ status' = o
                /\ UNCHANGED <<pdf_lvls, prob_lvls, prob_hori_lvls, scheme, ks, i>>
    /\ UNCHANGED <<normVars, plotVars, k, calls, fallbacks>>

\* lines 221-225: the bar comparison of resolution i.
BarStep ==
    /\ pc = "bars"
    /\ i <= Len(ks)
    /\ LET levels == <<Item(pdf_lvls, i), Item(prob_lvls, i), Item(prob_hori_lvls, i)>>
           r == plot_contour_levels_stat(levels, [t \in 1..Len(levels) |-> res.grid], LabelsFor(Item(ks, i)))
       IN  /\ calls' = Append(calls, Comparison("plot_contour_levels_stat", Item(ks, i), r))
           /\ IF r.status = "ok"
              THEN i' = i + 1 /\ UNCHANGED <<pc, status>>
              ELSE pc' = "raised" /\ status' = r.status /\ UNCHANGED i
    /\ UNCHANGED <<normVars, plotVars, k, ks, pdf_lvls, prob_lvls, prob_hori_lvls, scheme_calls, scheme, fallbacks>>

\* line 221 exhausted.
BarsDone ==
    /\ pc = "bars"
    /\ i > Len(ks)
    /\ pc' = "contours"
    /\ i' = 1
    /\ UNCHANGED <<normVars, plotVars, k, ks, pdf_lvls, prob_lvls, prob_hori_lvls, scheme_calls, calls, status, scheme, fallbacks>>

\* lines 226-230: the contour comparison of resolution i, on the normalized
\* grid and axes.
ContourStep ==
    /\ pc = "contours"
    /\ i <= Len(ks)
    /\ LET levels == <<Item(pdf_lvls, i), Item(prob_lvls, i), Item(prob_hori_lvls, i)>>
           r == contour_comparision_plot_2d(levels, res.grid, res.x, res.y, None, LabelsFor(Item(ks, i)))
       IN  /\ calls' = Append(calls, Comparison("contour_comparision_plot_2d", Item(ks, i), r))
           /\ IF r.status = "ok"
              THEN i' = i + 1 /\ UNCHANGED <<pc, status>>
              ELSE pc' = "raised" /\ status' = r.status /\ UNCHANGED i
    /\ UNCHANGED <<normVars, plotVars, k, ks, pdf_lvls, prob_lvls, prob_hori_lvls, scheme_calls, scheme, fallbacks>>

\* line 226 exhausted: plot_combined returns.
ContoursDone ==
    /\ pc = "contours"
    /\ i > Len(ks)
    /\ pc' = "done"
    /\ status' = "returned"
    /\ UNCHANGED <<normVars, plotVars, k, ks, pdf_lvls, prob_lvls, prob_hori_lvls, scheme_calls, calls, i, scheme, fallbacks>>

NextCombined ==
    \/ CombinedNormalize
    \/ IterNotIterable
    \/ LoopSchemeCall
    \/ LoopDone
    \/ FallbackSchemeCall
    \/ BarStep
    \/ BarsDone
    \/ ContourStep
    \/ ContoursDone

SpecCombined == InitCombined /\ [][NextCombined]_vars

\* ------------------------------------------------- normalizer properties
\* Arithmetic on coordinates <<num, den>>.
FEq(p, q) == p[1] * q[2] = q[1] * p[2]
FSub(p, q) == <<p[1] * q[2] - q[1] * p[2], p[2] * q[2]>>

EvenlySpaced(a) == \A j \in 1..(Len(a) - 2) : FEq(FSub(a[j + 1], a[j]), FSub(a[j + 2], a[j + 1]))
Spans01(a) == Len(a) >= 1 /\ FEq(a[1], <<0, 1>>) /\ FEq(a[Len(a)], <<1, 1>>)

\* An axis of n evenly spaced points spanning [0, 1].
UnitAxis(a, n) == ~a.isNone /\ Len(a.v) = n /\ EvenlySpaced(a.v) /\ Spans01(a.v)

\* The axes the call is given, directly or through indexes.
GivenX == IF ~indexes.isNone /\ Len(indexes.v) >= 1 THEN indexes.v[1] ELSE x
GivenY == IF ~indexes.isNone /\ Len(indexes.v) >= 2 THEN indexes.v[2] ELSE y

NoAxes == x.isNone /\ y.isNone /\ indexes.isNone
IsSquare(n) == \E s \in 0..n : s * s = n
Root(n) == CHOOSE s \in 0..n : s * s = n
Returned == pc # "start"
ReturnsNothing(r) == r.grid = NoGrid /\ r.x = None /\ r.y = None

\* C1: a two-dimensional pdf of shape (m, n) with x, y and indexes unset
\* normalizes successfully, keeps its shape, and gets axes of m and n evenly
\* spaced coordinates over [0, 1].
C1_TwoDimNoAxes ==
    (Returned /\ Len(pdf.shape) = 2 /\ NoAxes)
        => /\ res.status = "ok"
           /\ res.grid.shape = pdf.shape
           /\ UnitAxis(res.x, pdf.shape[1])
           /\ UnitAxis(res.y, pdf.shape[2])

\* C2 as stated: a flat pdf of length n = s*s with no axes normalizes to an
\* (s, s) grid with two axes of s evenly spaced points spanning [0, 1]; a
\* flat pdf of non-square length fails with the shape-inference error and
\* returns nothing.
C2_FlatNoAxes_Original ==
    (Returned /\ Len(pdf.shape) = 1 /\ NoAxes)
        => IF IsSquare(pdf.shape[1])
           THEN /\ res.status = "ok"
                /\ res.grid.shape = <<Root(pdf.shape[1]), Root(pdf.shape[1])>>
                /\ UnitAxis(res.x, Root(pdf.shape[1]))
                /\ UnitAxis(res.y, Root(pdf.shape[1]))
           ELSE res.status = "ValueError: cannot infer shape" /\ ReturnsNothing(res)

\* An axis of n evenly spaced points that starts at 0 when it has a point
\* and ends at 1 when it has at least two.
LinspaceAxis(a, n) ==
    /\ ~a.isNone /\ Len(a.v) = n /\ EvenlySpaced(a.v)
    /\ (n >= 1 => FEq(a.v[1], <<0, 1>>))
    /\ (n >= 2 => FEq(a.v[n], <<1, 1>>))

\* C2 amended: a flat pdf of length n = s*s with no axes normalizes to an
\* (s, s) grid with two axes of s evenly spaced points, which span [0, 1]
\* when s >= 2 and are the single point 0 when s = 1; a flat pdf of
\* non-square length fails with the shape-inference error and returns
\* nothing.
C2_FlatNoAxes ==
    (Returned /\ Len(pdf.shape) = 1 /\ NoAxes)
        => IF IsSquare(pdf.shape[1])
           THEN /\ res.status = "ok"
                /\ res.grid.shape = <<Root(pdf.shape[1]), Root(pdf.shape[1])>>
                /\ LinspaceAxis(res.x, Root(pdf.shape[1]))
                /\ LinspaceAxis(res.y, Root(pdf.shape[1]))
           ELSE res.status = "ValueError: cannot infer shape" /\ ReturnsNothing(res)

C2_Witness ==
    /\ Returned /\ NoAxes /\ pdf.shape = <<9>>
    /\ res.status = "ok" /\ res.grid.shape = <<3, 3>>
    /\ res.x.v = <<(<<0, 2>>), (<<1, 2>>), (<<2, 2>>)>>

\* C3: with both axes given, directly or through indexes, normalization
\* returns the pdf reshaped to (len(x), len(y)) with the axes as supplied
\* when len(x) * len(y) is the element count, and fails with the
\* shape-mismatch error when it is not.
C3_BothAxes ==
    (Returned /\ ~GivenX.isNone /\ ~GivenY.isNone)
        => IF Len(GivenX.v) * Len(GivenY.v) = size(pdf)
           THEN /\ res.status = "ok"
                /\ res.grid.shape = <<Len(GivenX.v), Len(GivenY.v)>>
                /\ res.x = GivenX /\ res.y = GivenY
           ELSE res.status = "ValueError: shapes do not match"

\* C4: when exactly one of x and y is set after the indexes override,
\* normalization fails with the argument-pairing TypeError whatever the
\* pdf is, and returns no grid.
C4_PairingError ==
    (Returned /\ GivenX.isNone # GivenY.isNone)
        => /\ res.status = "TypeError: x and y must be both set or both unset"
           /\ ReturnsNothing(res)

C4_Witness ==
    /\ Returned /\ ~GivenX.isNone /\ GivenY.isNone
    /\ Len(pdf.shape) = 2 /\ pdf.order = "F"
    /\ res.status = "TypeError: x and y must be both set or both unset"

\* C5: normalizing with indexes = [xs, ys] has the same outcome as
\* normalizing with x = xs, y = ys and no indexes, whatever x and y are
\* passed next to indexes.
C5_IndexesOverride == (res_direct # NotCalled) => (res_direct = res)

C5_Witness ==
    /\ res_direct # NotCalled /\ res.status = "ok"
    /\ ~x.isNone /\ ~y.isNone
    /\ Len(x.v) # Len(indexes.v[1].v) /\ Len(y.v) # Len(indexes.v[2].v)
    /\ res.x = indexes.v[1] /\ res.y = indexes.v[2]

\* C10: normalizing the normalizer's own output (grid, x_axis, y_axis)
\* again succeeds and returns the same grid and the same axes.
C10_Idempotent == (res_again # NotCalled) => (res_again = res /\ res_again.status = "ok")

C10_Witness ==
    /\ res_again # NotCalled /\ res_again.status = "ok"
    /\ res.grid.shape # pdf.shape /\ Len(res.x.v) # Len(res.y.v)

\* --------------------------------------------------- plotting properties
ContourDraws(events) == SelectSeq(events, LAMBDA e : e.op = "contour")
BarDraws(events) == SelectSeq(events, LAMBDA e : e.op = "bar")
AllEqualLength == Len(levels_lst) = Len(pdf_lst) /\ Len(pdf_lst) = Len(labels)

\* C8: the bar comparison fails with the length-mismatch ValueError whenever
\* levels_lst, pdf_lst and labels are not all of one length, before any
\* figure is created and before the weight routine is called.
C8_LengthMismatch ==
    (pc = "bar comparison" /\ ~AllEqualLength)
        => /\ out.status = "ValueError: All arguments must be sequences of equal length."
           /\ out.events = <<>>

C8_Witness ==
    /\ pc = "bar comparison"
    /\ Len(levels_lst) = Len(labels) /\ Len(pdf_lst) < Len(levels_lst) /\ Len(pdf_lst) > 0
    /\ out.status = "ValueError: All arguments must be sequences of equal length."

\* C9: on a grid that normalizes, the contour comparison makes exactly
\* len(levels_lst) contour draws, the t-th at the sorted distinct values of
\* levels_lst[t] and titled labels[t].
C9_OneDrawPerScheme ==
    (pc = "contour comparison" /\ _validate_infer_indexes(pdf, x, y, indexes).status = "ok")
        => /\ Len(ContourDraws(out.events)) = Len(levels_lst)
           /\ \A t \in 1..Len(levels_lst) :
                /\ t <= Len(labels)
                /\ ContourDraws(out.events)[t].levels = unique(levels_lst[t])
                /\ ContourDraws(out.events)[t].title = labels[t]

\* ------------------------------------------------- properties of the driver
Finished == pc \in {"done", "raised"}
ValidResolutions == k.type = "int" \/ (k.type = "list" /\ \A t \in DOMAIN k.items : k.items[t].type = "int")
Requested == IF k.type = "list" THEN k.items ELSE <<k>>
Titles(events) == [t \in DOMAIN events |-> events[t].title]

\* A bar comparison, or a contour comparison, of the three schemes at ki.
BarOfThree(c, ki) ==
    /\ c.fn = "plot_contour_levels_stat" /\ c.k = ki /\ c.status = "ok"
    /\ Titles(BarDraws(c.events)) = <<Label("old (k={})", ki), Label("vertical (k={})", ki), Label("horizonal (k={})", ki)>>
ContourOfThree(c, ki) ==
    /\ c.fn = "contour_comparision_plot_2d" /\ c.k = ki /\ c.status = "ok"
    /\ Titles(ContourDraws(c.events)) = <<Label("old (k={})", ki), Label("vertical (k={})", ki), Label("horizonal (k={})", ki)>>

\* C6: with a pdf that normalizes, a scalar resolution makes one bar and one
\* contour comparison and a sequence of n resolutions makes n of each, every
\* one over the three schemes, the bar comparisons in the order of the
\* resolutions, then the contour comparisons in the same order.
C6_OnePairPerResolution ==
    (res.status = "ok" /\ ValidResolutions)
        => /\ \A a, b \in DOMAIN calls :
                (a < b /\ calls[a].fn = "contour_comparision_plot_2d") => calls[b].fn = "contour_comparision_plot_2d"
           /\ Finished =>
                /\ pc = "done"
                /\ Len(calls) = 2 * Len(Requested)
                /\ \A t \in DOMAIN Requested :
                     /\ BarOfThree(calls[t], Requested[t])
                     /\ ContourOfThree(calls[Len(Requested) + t], Requested[t])

LoopRaisedTypeError ==
    \/ k.type # "list" /\ res.status = "ok" /\ pc # "iterate"
    \/ \E t \in DOMAIN scheme_calls : scheme_calls[t].phase = "loop" /\ scheme_calls[t].outcome = "TypeError"
FallbackCalls == SelectSeq(scheme_calls, LAMBDA c : c.phase = "fallback")

\* C7: a TypeError from iterating k, or from a level-scheme call of the
\* iteration, is handled once: the level sets computed so far are
\* discarded, each scheme is called once with the original k, and one
\* resolution, k itself, goes to the two rendering loops: one bar
\* comparison and one contour comparison, the latter drawn unless
\* axis.contour refuses the grid; an error of the handler's own calls leaves
\* the driver with nothing rendered.
C7_SingleFallback ==
    /\ fallbacks <= 1
    /\ LoopRaisedTypeError => fallbacks = 1
    /\ fallbacks = 0 => FallbackCalls = <<>>
    /\ \A t \in DOMAIN FallbackCalls : FallbackCalls[t].k = k /\ FallbackCalls[t].scheme = SchemeNames[t]
    /\ (fallbacks = 1 /\ pc \in {"bars", "contours", "done"}) =>
         /\ Len(FallbackCalls) = 3
         /\ \A t \in 1..3 : FallbackCalls[t].outcome = "ok"
         /\ ks = <<k>>
         /\ pdf_lvls = <<SchemeLevels(1, k)>>
         /\ prob_lvls = <<SchemeLevels(2, k)>>
         /\ prob_hori_lvls = <<SchemeLevels(3, k)>>
    /\ (fallbacks = 1 /\ pc = "done") =>
         /\ Len(calls) = 2
         /\ BarOfThree(calls[1], k)
         /\ ContourOfThree(calls[2], k)
    /\ \A t \in DOMAIN calls : fallbacks = 1 => calls[t].k = k
    /\ (fallbacks = 1 /\ Len(calls) >= 1) => BarOfThree(calls[1], k)
    /\ (fallbacks = 1 /\ Len(FallbackCalls) < 3 /\ pc = "raised") =>
         /\ calls = <<>>
         /\ FallbackCalls # <<>>
         /\ FallbackCalls[Len(FallbackCalls)].outcome = status
         /\ status # "ok"
    /\ (fallbacks = 1 /\ Len(FallbackCalls) < 3) => calls = <<>>
    /\ (fallbacks = 1 /\ Len(FallbackCalls) = 3 /\ FallbackCalls[3].outcome = "ok" /\ Finished) =>
         /\ Len(calls) = 2
         /\ calls[2].fn = "contour_comparision_plot_2d"
         /\ pc = "raised" => calls[2].status = "TypeError: contour"

C7_Witness ==
    /\ pc = "done" /\ fallbacks = 1 /\ k.type = "list"
    /\ \E t \in DOMAIN scheme_calls : scheme_calls[t].phase = "loop" /\ scheme_calls[t].outcome = "ok"
    /\ Len(pdf_lvls) = 1 /\ Len(calls) = 2
====
